---- MODULE Spec2Model ----
(***************************************************************************)
(* State-machine model of the UMKM Business Prediction API (src/main.py).  *)
(*                                                                         *)
(* One action per HTTP endpoint.  An action covers the whole request: the  *)
(* framework's validation of the body against the handler's parameter      *)
(* type, then the handler itself, including every gateway call it makes.   *)
(*                                                                         *)
(* Representation choices:                                                 *)
(*  - a JSON body is a record whose DOMAIN is the set of fields present;   *)
(*  - Python None is the string "None"; Optional[int] query parameters are *)
(*    <<>> (omitted) or <<n>>;                                             *)
(*  - a float is held exactly, as an integer count of hundredths where the *)
(*    code multiplies by its coefficients (all of which are hundredths);   *)
(*    request inputs are whole numbers.  IEEE rounding is not modelled;    *)
(*  - an ObjectId is a natural number, str() of it its decimal digits;     *)
(*  - the status texts of /test are written without their emoji prefix.    *)
(***************************************************************************)
EXTENDS Integers, Sequences, FiniteSets, TLC

VARIABLES
    db,        \* the gateway handle imported at start-up: None or "db"
    env,       \* which of DATABASE_URL / DATABASE_NAME are set
    store,     \* the document store: collection name -> sequence of records
    nextId,    \* the next ObjectId the store will assign
    inserts,   \* number of insert calls this process has made
    request,   \* the last request received: endpoint, and body or query
    response,  \* the response to the last request
    steps,     \* the stages the last request went through
    args,      \* baseline_predict called on its own: the arguments
    result     \* baseline_predict called on its own: the value returned

vars ==
    <<db, env, store, nextId, inserts, request, response, steps, args, result>>

None == "None"

-----------------------------------------------------------------------------
(* Bounds of the model *)

MaxInserts == 2     \* inserts one process run performs
MaxSales == 3       \* |sales| range of the stand-alone predictor calls
MaxOrders == 6      \* |orders| range of the stand-alone predictor calls
MaxSpend == 60      \* |marketing_spend| range of the stand-alone predictor calls

(* Program constants *)

DefaultLimit == 50  \* limit: Optional[int] = 50
CollCap == 10       \* collections[:10]
ErrCap == 50        \* str(e)[:50]
Hundred == 100      \* denominator of the coefficients 1.05, 0.5, 1.03, 0.02
SalesCoef == 105    \* sales * 1.05
SpendSalesCoef == 50   \* marketing_spend * 0.5
OrdersCoef == 103   \* orders * 1.03
SpendOrdersCoef == 2   \* marketing_spend * 0.02

Collections == <<"profile", "metric", "prediction", "report">>

-----------------------------------------------------------------------------
(* Helpers *)

Min(a, b) == IF a < b THEN a ELSE b
Max(a, b) == IF a > b THEN a ELSE b

\* Python's seq[:n] for n >= 0
Take(s, n) == SubSeq(s, 1, Min(n, Len(s)))

\* Python's int(): truncation towards zero of num/den, den > 0
IntTrunc(num, den) == IF num >= 0 THEN num \div den ELSE -((-num) \div den)

\* Mathematical floor of num/den, den > 0
Floor(num, den) == num \div den

RECURSIVE Digits(_)
Digits(n) == IF n < 10 THEN <<n>> ELSE Append(Digits(n \div 10), n % 10)

\* str(ObjectId)
StrId(oid) == Digits(oid)

\* dict restricted to / merged with fields
Without(rec, f) == [k \in DOMAIN rec \ {f} |-> rec[k]]
Get(rec, f, default) == IF f \in DOMAIN rec THEN rec[f] ELSE default

-----------------------------------------------------------------------------
(* Dates: parsing at the validation boundary, isoformat at the response *)

Date(y, m, d) == [year |-> y, month |-> m, day |-> d]

\* pydantic's date parsing: date-only and zero-time date-time forms
DateParses(s) == s \in {"2024-01-01", "2024-02-01", "2024-02-01T00:00:00"}
ParseDate(s) ==
    CASE s = "2024-01-01" -> Date(2024, 1, 1)
      [] s = "2024-02-01" -> Date(2024, 2, 1)
      [] s = "2024-02-01T00:00:00" -> Date(2024, 2, 1)

\* date.isoformat()
isoformat(d) ==
    CASE d = Date(2024, 1, 1) -> "2024-01-01"
      [] d = Date(2024, 2, 1) -> "2024-02-01"

-----------------------------------------------------------------------------
(* Request models: validation and model_dump *)

MetricFields == {"period", "sales", "orders", "marketing_spend"}

\* class MetricIn(BaseModel): which fields of the body fail
MetricIn_errors(body) ==
    {f \in MetricFields : f \notin DOMAIN body}
      \cup {f \in {"period"} \cap DOMAIN body : ~DateParses(body[f])}

\* MetricIn(...).model_dump()
MetricIn(body) ==
    [period |-> ParseDate(body.period), sales |-> body.sales,
     orders |-> body.orders, marketing_spend |-> body.marketing_spend]

\* class PredictIn(BaseModel)
PredictIn_errors(body) ==
    {f \in MetricFields : f \notin DOMAIN body}
      \cup {f \in {"period"} \cap DOMAIN body : ~DateParses(body[f])}

PredictIn(body) ==
    [period |-> ParseDate(body.period), sales |-> body.sales,
     orders |-> body.orders, marketing_spend |-> body.marketing_spend]

\* class ProfileIn(BaseModel)
ProfileIn_errors(body) ==
    {f \in {"owner_name", "business_name"} : f \notin DOMAIN body}

ProfileIn(body) ==
    [owner_name |-> body.owner_name, business_name |-> body.business_name,
     email |-> Get(body, "email", None), phone |-> Get(body, "phone", None),
     address |-> Get(body, "address", None),
     industry |-> Get(body, "industry", None)]

\* class ReportIn(BaseModel)
ReportIn_errors(body) == {f \in {"title"} : f \notin DOMAIN body}

ReportIn(body) ==
    [title |-> body.title, notes |-> Get(body, "notes", None),
     status |-> Get(body, "status", "open")]

\* The stored-record schemas of schemas.py: Field(..., ge=0)
Metric_ge0(rec) == rec.sales >= 0 /\ rec.orders >= 0 /\ rec.marketing_spend >= 0

-----------------------------------------------------------------------------
(* The prediction function *)

\* baseline_predict returning the raw linear terms, without max(0, ...)
baseline_predict_noclamp(sales, orders, marketing_spend) ==
    [predicted_sales |->
        sales * SalesCoef + marketing_spend * SpendSalesCoef,
     predicted_orders |->
        IntTrunc(orders * OrdersCoef + marketing_spend * SpendOrdersCoef,
                 Hundred)]

\* baseline_predict rounding the order count to the nearest integer
\* instead of truncating it
baseline_predict_round(sales, orders, marketing_spend) ==
    [predicted_sales |->
        Max(0, sales * SalesCoef + marketing_spend * SpendSalesCoef),
     predicted_orders |->
        Max(0, Floor(2 * (orders * OrdersCoef
                            + marketing_spend * SpendOrdersCoef) + Hundred,
                     2 * Hundred))]

\* def baseline_predict(sales, orders, marketing_spend); predicted_sales is
\* returned in hundredths
baseline_predict(sales, orders, marketing_spend) ==
    LET predicted_sales == sales * SalesCoef + marketing_spend * SpendSalesCoef
        predicted_orders ==
            IntTrunc(orders * OrdersCoef + marketing_spend * SpendOrdersCoef,
                     Hundred)
    IN  [predicted_sales |-> Max(0, predicted_sales),
         predicted_orders |-> Max(0, predicted_orders)]

-----------------------------------------------------------------------------
(* The persistence gateway (module database) *)

WithId(oid, data) == ("_id" :> oid) @@ data

\* create_document(collection_name, record) -> id : one insert, the id
\* assigned by the store is returned as a string
create_document(collection_name, data) ==
    /\ store' = [store EXCEPT
                   ![collection_name] = Append(@, WithId(nextId, data))]
    /\ nextId' = nextId + 1
    /\ inserts' = inserts + 1

inserted_id == StrId(nextId)

\* get_documents(collection_name, limit=None): natural storage order,
\* capped at limit entries when a limit is given
get_documents(collection_name, limit) ==
    IF limit = <<>> THEN store[collection_name]
    ELSE Take(store[collection_name], limit[1])

\* db.list_collection_names(): the collections that hold a document, then
\* whatever else lives in the same database
OtherCollections ==
    <<"user", "product", "blogs", "session", "audit", "cache", "job",
      "event", "token", "order", "invoice", "note">>

list_collection_names(others) ==
    SelectSeq(Collections, LAMBDA c : Len(store[c]) > 0)
        \o SubSeq(OtherCollections, 1, others)

\* str(e) of what the driver raises: a text of the given length
ErrorText(len) == [i \in 1..len |-> i]

-----------------------------------------------------------------------------
(* Responses *)

HTTPException(ep, status_code, detail) ==
    [ep |-> ep, status |-> status_code, detail |-> detail]

\* the framework's answer to a body that fails its model
RequestValidationError(ep, errors) ==
    /\ response' = [ep |-> ep, status |-> 422, errors |-> errors]
    /\ steps' = <<"validate">>
    /\ UNCHANGED <<store, nextId, inserts>>

NotConfigured(ep) ==
    /\ response' = HTTPException(ep, 500, "Database not configured")
    /\ UNCHANGED <<store, nextId, inserts>>

\* i["_id"] = str(i["_id"]) if "_id" in i else None
StringifyId(i) ==
    IF "_id" \in DOMAIN i THEN [i EXCEPT !["_id"] = StrId(@)]
    ELSE ("_id" :> None) @@ i

\* if "period" in i and isinstance(i["period"], (datetime, date)): isoformat
FormatPeriod(i) ==
    IF "period" \in DOMAIN i THEN [i EXCEPT !["period"] = isoformat(@)]
    ELSE i

\* for i in items: ... (the loops of the list handlers)
StringifyIds(items) == [k \in 1..Len(items) |-> StringifyId(items[k])]
StringifyIdsFormatPeriods(items) ==
    [k \in 1..Len(items) |-> FormatPeriod(StringifyId(items[k]))]

-----------------------------------------------------------------------------
(* Handlers *)

\* def read_root()
read_root ==
    /\ response' = [ep |-> "GET /", status |-> 200,
                    message |-> "UMKM Prediction Backend Running"]
    /\ steps' = <<"handler">>
    /\ UNCHANGED <<store, nextId, inserts>>

\* a status text, and a status text followed by the capped error text
Text(s) == [text |-> s, error |-> <<>>]

\* the error text appended whole, without [:50]
TextErrorUncapped(s, e) == [text |-> s, error |-> e]

\* f"...: {str(e)[:50]}"
TextError(s, e) == [text |-> s, error |-> Take(e, ErrCap)]

\* def test_database(); probe is what the driver does when asked for the
\* collection names
test_database(probe) ==
    LET r0 == [backend |-> "Running", database |-> Text("Not Available"),
               database_url |-> None, database_name |-> None,
               connection_status |-> "Not Connected", collections |-> <<>>]
        r1 == IF db # None
              THEN LET a == [r0 EXCEPT !.database = Text("Available"),
                                       !.database_url = "Configured",
                                       !.database_name = "umkm",
                                       !.connection_status = "Connected"]
                   IN  IF probe.raises
                       THEN [a EXCEPT !.database =
                               TextError("Connected but Error: ", probe.error)]
                       ELSE [a EXCEPT
                               !.collections = Take(probe.names, CollCap),
                               !.database = Text("Connected & Working")]
              ELSE [r0 EXCEPT !.database = Text("Available but not initialized")]
        r2 == [r1 EXCEPT
                 !.database_url = IF env.DATABASE_URL THEN "Set" ELSE "Not Set",
                 !.database_name = IF env.DATABASE_NAME THEN "Set" ELSE "Not Set"]
    IN  /\ response' = [ep |-> "GET /test", status |-> 200, body |-> r2]
        /\ steps' = IF db # None THEN <<"handler", "probe">> ELSE <<"handler">>
        /\ UNCHANGED <<store, nextId, inserts>>

\* create_profile without its availability check
create_profile_nocheck(payload) ==
    /\ create_document("profile", payload)
    /\ response' = [ep |-> "POST /api/profile", status |-> 200,
                    id |-> inserted_id, message |-> "Profile created"]
    /\ steps' = <<"validate", "insert">>

\* create_profile replacing the stored profile of the same owner, when there
\* is one, instead of inserting
create_profile_upsert(payload) ==
    IF db = None
    THEN /\ NotConfigured("POST /api/profile")
         /\ steps' = <<"validate", "check_db">>
    ELSE LET same == {k \in 1..Len(store.profile) :
                        store.profile[k].owner_name = payload.owner_name}
         IN  IF same = {}
             THEN /\ create_document("profile", payload)
                  /\ response' = [ep |-> "POST /api/profile", status |-> 200,
                                  id |-> inserted_id,
                                  message |-> "Profile created"]
                  /\ steps' = <<"validate", "check_db", "insert">>
             ELSE LET k == CHOOSE j \in same : TRUE
                  IN  /\ store' = [store EXCEPT !.profile[k] =
                                     WithId(@["_id"], payload)]
                      /\ response' = [ep |-> "POST /api/profile",
                                      status |-> 200,
                                      id |-> StrId(store.profile[k]["_id"]),
                                      message |-> "Profile created"]
                      /\ steps' = <<"validate", "check_db", "insert">>
                      /\ UNCHANGED nextId
                      /\ inserts' = inserts + 1

\* def create_profile(payload: ProfileIn)
create_profile(payload) ==
    IF db = None
    THEN /\ NotConfigured("POST /api/profile")
         /\ steps' = <<"validate", "check_db">>
    ELSE /\ create_document("profile", payload)
         /\ response' = [ep |-> "POST /api/profile", status |-> 200,
                         id |-> inserted_id, message |-> "Profile created"]
         /\ steps' = <<"validate", "check_db", "insert">>

\* def get_profiles()
get_profiles ==
    IF db = None
    THEN /\ NotConfigured("GET /api/profile")
         /\ steps' = <<"check_db">>
    ELSE /\ response' = [ep |-> "GET /api/profile", status |-> 200,
                         items |-> StringifyIds(
                                      get_documents("profile", <<>>))]
         /\ steps' = <<"check_db", "find">>
         /\ UNCHANGED <<store, nextId, inserts>>

\* create_metric inserting into the 'report' collection
create_metric_wrongcoll(payload) ==
    IF db = None
    THEN /\ NotConfigured("POST /api/metrics")
         /\ steps' = <<"validate", "check_db">>
    ELSE /\ create_document("report", payload)
         /\ response' = [ep |-> "POST /api/metrics", status |-> 200,
                         id |-> inserted_id, message |-> "Metric saved"]
         /\ steps' = <<"validate", "check_db", "insert">>

\* def create_metric(payload: MetricIn)
create_metric(payload) ==
    IF db = None
    THEN /\ NotConfigured("POST /api/metrics")
         /\ steps' = <<"validate", "check_db">>
    ELSE /\ create_document("metric", payload)
         /\ response' = [ep |-> "POST /api/metrics", status |-> 200,
                         id |-> inserted_id, message |-> "Metric saved"]
         /\ steps' = <<"validate", "check_db", "insert">>

\* list_metrics not passing its limit on to the gateway
list_metrics_nolimit(limit) ==
    IF db = None
    THEN /\ NotConfigured("GET /api/metrics")
         /\ steps' = <<"check_db">>
    ELSE /\ response' =
              [ep |-> "GET /api/metrics", status |-> 200,
               items |-> StringifyIdsFormatPeriods(
                            get_documents("metric", <<>>))]
         /\ steps' = <<"check_db", "find">>
         /\ UNCHANGED <<store, nextId, inserts>>

\* def list_metrics(limit: Optional[int] = 50)
list_metrics(limit) ==
    IF db = None
    THEN /\ NotConfigured("GET /api/metrics")
         /\ steps' = <<"check_db">>
    ELSE /\ response' =
              [ep |-> "GET /api/metrics", status |-> 200,
               items |-> StringifyIdsFormatPeriods(
                            get_documents("metric", limit))]
         /\ steps' = <<"check_db", "find">>
         /\ UNCHANGED <<store, nextId, inserts>>

\* predict storing the two predictions under each other's key
predict_swapped(payload) ==
    IF db = None
    THEN /\ NotConfigured("POST /api/predict")
         /\ steps' = <<"validate", "check_db">>
    ELSE LET p == baseline_predict(payload.sales, payload.orders,
                                   payload.marketing_spend)
             data == payload @@ [predicted_sales |-> p.predicted_orders,
                                 predicted_orders |-> p.predicted_sales]
         IN  /\ create_document("prediction", data)
             /\ response' = [ep |-> "POST /api/predict", status |-> 200,
                             id |-> inserted_id,
                             predicted_sales |-> p.predicted_sales,
                             predicted_orders |-> p.predicted_orders]
             /\ steps' = <<"validate", "check_db", "insert">>

\* def predict(payload: PredictIn)
predict(payload) ==
    IF db = None
    THEN /\ NotConfigured("POST /api/predict")
         /\ steps' = <<"validate", "check_db">>
    ELSE LET p == baseline_predict(payload.sales, payload.orders,
                                   payload.marketing_spend)
             data == payload @@ [predicted_sales |-> p.predicted_sales,
                                 predicted_orders |-> p.predicted_orders]
         IN  /\ create_document("prediction", data)
             /\ response' = [ep |-> "POST /api/predict", status |-> 200,
                             id |-> inserted_id,
                             predicted_sales |-> p.predicted_sales,
                             predicted_orders |-> p.predicted_orders]
             /\ steps' = <<"validate", "check_db", "insert">>

\* def create_report(payload: ReportIn)
create_report(payload) ==
    IF db = None
    THEN /\ NotConfigured("POST /api/reports")
         /\ steps' = <<"validate", "check_db">>
    ELSE /\ create_document("report", payload)
         /\ response' = [ep |-> "POST /api/reports", status |-> 200,
                         id |-> inserted_id, message |-> "Report created"]
         /\ steps' = <<"validate", "check_db", "insert">>

\* def list_reports(limit: Optional[int] = 50)
list_reports(limit) ==
    IF db = None
    THEN /\ NotConfigured("GET /api/reports")
         /\ steps' = <<"check_db">>
    ELSE /\ response' = [ep |-> "GET /api/reports", status |-> 200,
                         items |-> StringifyIds(
                                      get_documents("report", limit))]
         /\ steps' = <<"check_db", "find">>
         /\ UNCHANGED <<store, nextId, inserts>>

-----------------------------------------------------------------------------
(* Requests the model sends *)

SampleMetricBody ==
    [period |-> "2024-01-01", sales |-> 1000, orders |-> 50,
     marketing_spend |-> 100]

\* bodies that carry every field: the sample, the sample for another period
\* written as a date-time, and the sample with one number below zero
GoodMetricBodies ==
    {SampleMetricBody,
     [SampleMetricBody EXCEPT !.period = "2024-02-01T00:00:00"],
     [SampleMetricBody EXCEPT !.sales = -1000],
     [SampleMetricBody EXCEPT !.orders = -50],
     [SampleMetricBody EXCEPT !.marketing_spend = -100]}

BadMetricBodies ==
    {Without(SampleMetricBody, f) : f \in MetricFields}
        \cup {[SampleMetricBody EXCEPT !.period = "not-a-date"]}

MetricBodies == GoodMetricBodies \cup BadMetricBodies

SampleProfileBody == [owner_name |-> "Ani", business_name |-> "Warung Ani"]

ProfileBodies ==
    {SampleProfileBody, SampleProfileBody @@ [email |-> "ani@example.com"],
     Without(SampleProfileBody, "owner_name"),
     Without(SampleProfileBody, "business_name")}

SampleReportBody == [title |-> "Q1"]

ReportBodies ==
    {SampleReportBody,
     SampleReportBody @@ [notes |-> "slow week", status |-> "done"],
     [notes |-> "slow week"]}

\* the limit query parameter: omitted, or a number
Limits == {<<>>, <<0>>, <<1>>}

\* what the driver may do when /test asks for the collection names
Probes ==
    {[raises |-> FALSE, names |-> list_collection_names(n), error |-> <<>>] :
        n \in {0, Len(OtherCollections)}}
      \cup {[raises |-> TRUE, names |-> <<>>, error |-> ErrorText(n)] :
              n \in {0, ErrCap, ErrCap + 1}}

\* arguments of the stand-alone predictor calls
PredictArgs ==
    ((-MaxSales..MaxSales) \cup {-1000, 1000})
        \X ((-MaxOrders..MaxOrders) \cup {-50, 50})
        \X ((-MaxSpend..MaxSpend) \cup {-100, 100})

-----------------------------------------------------------------------------
(* Endpoints: the framework validates the body or query, then calls the
   handler *)

Fixed == UNCHANGED <<db, env, args, result>>

GET_root == request' = [ep |-> "GET /"] /\ read_root /\ Fixed

GET_test ==
    \E probe \in Probes :
        request' = [ep |-> "GET /test"] /\ test_database(probe) /\ Fixed

\* POST /api/profile with the availability check made before the body is
\* validated
POST_api_profile_dbfirst ==
    \E body \in ProfileBodies :
        /\ inserts < MaxInserts
        /\ request' = [ep |-> "POST /api/profile", body |-> body]
        /\ IF db = None
           THEN /\ NotConfigured("POST /api/profile")
                /\ steps' = <<"check_db">>
           ELSE IF ProfileIn_errors(body) = {}
           THEN create_profile(ProfileIn(body))
           ELSE RequestValidationError("POST /api/profile",
                                       ProfileIn_errors(body))
        /\ Fixed

POST_api_profile ==
    \E body \in ProfileBodies :
        /\ inserts < MaxInserts
        /\ request' = [ep |-> "POST /api/profile", body |-> body]
        /\ IF ProfileIn_errors(body) = {}
           THEN create_profile(ProfileIn(body))
           ELSE RequestValidationError("POST /api/profile",
                                       ProfileIn_errors(body))
        /\ Fixed

GET_api_profile ==
    request' = [ep |-> "GET /api/profile"] /\ get_profiles /\ Fixed

POST_api_metrics ==
    \E body \in MetricBodies :
        /\ inserts < MaxInserts
        /\ request' = [ep |-> "POST /api/metrics", body |-> body]
        /\ IF MetricIn_errors(body) = {}
           THEN create_metric(MetricIn(body))
           ELSE RequestValidationError("POST /api/metrics",
                                       MetricIn_errors(body))
        /\ Fixed

GET_api_metrics ==
    \E q \in Limits :
        /\ request' = [ep |-> "GET /api/metrics", limit |-> q]
        /\ list_metrics(IF q = <<>> THEN <<DefaultLimit>> ELSE q)
        /\ Fixed

POST_api_predict ==
    \E body \in MetricBodies :
        /\ inserts < MaxInserts
        /\ request' = [ep |-> "POST /api/predict", body |-> body]
        /\ IF PredictIn_errors(body) = {}
           THEN predict(PredictIn(body))
           ELSE RequestValidationError("POST /api/predict",
                                       PredictIn_errors(body))
        /\ Fixed

POST_api_reports ==
    \E body \in ReportBodies :
        /\ inserts < MaxInserts
        /\ request' = [ep |-> "POST /api/reports", body |-> body]
        /\ IF ReportIn_errors(body) = {}
           THEN create_report(ReportIn(body))
           ELSE RequestValidationError("POST /api/reports",
                                       ReportIn_errors(body))
        /\ Fixed

GET_api_reports ==
    \E q \in Limits :
        /\ request' = [ep |-> "GET /api/reports", limit |-> q]
        /\ list_reports(IF q = <<>> THEN <<DefaultLimit>> ELSE q)
        /\ Fixed

-----------------------------------------------------------------------------
(* Initial states: the process has started; the database may already hold
   records that earlier runs of the same program created *)

Stored(n) ==
    [profile |-> [k \in 1..n |-> WithId(k, ProfileIn(SampleProfileBody))],
     metric |-> [k \in 1..n |-> WithId(n + k, MetricIn(SampleMetricBody))],
     prediction |-> <<>>,
     report |-> [k \in 1..n |-> WithId(2 * n + k, ReportIn(SampleReportBody))]]

NoRequestYet == [ep |-> "none", status |-> 0]

Init ==
    /\ db \in {None, "db"}
    /\ env \in [DATABASE_URL : BOOLEAN, DATABASE_NAME : BOOLEAN]
    /\ db # None => env.DATABASE_URL /\ env.DATABASE_NAME
    /\ \E n \in (IF db = None THEN {0}
                 ELSE {0, DefaultLimit - 1}) :
          /\ store = Stored(n)
          /\ nextId = 3 * n + 1
    /\ inserts = 0
    /\ request = [ep |-> "none"]
    /\ response = NoRequestYet
    /\ steps = <<>>
    /\ args = <<0, 0, 0>>
    /\ result = <<>>

Next ==
    \/ GET_root
    \/ GET_test
    \/ POST_api_profile
    \/ GET_api_profile
    \/ POST_api_metrics
    \/ GET_api_metrics
    \/ POST_api_predict
    \/ POST_api_reports
    \/ GET_api_reports

Spec == Init /\ [][Next]_vars

-----------------------------------------------------------------------------
(* The prediction function on its own, over a range of arguments *)

InitPredict ==
    /\ db = None
    /\ env = [DATABASE_URL |-> FALSE, DATABASE_NAME |-> FALSE]
    /\ store = Stored(0)
    /\ nextId = 1
    /\ inserts = 0
    /\ request = [ep |-> "none"]
    /\ response = NoRequestYet
    /\ steps = <<>>
    /\ args \in PredictArgs
    /\ result = <<>>

CallPredict ==
    /\ result = <<>>
    /\ result' = <<baseline_predict(args[1], args[2], args[3])>>
    /\ UNCHANGED <<db, env, store, nextId, inserts, request, response, steps,
                   args>>

NextPredict == CallPredict

SpecPredict == InitPredict /\ [][NextPredict]_vars

-----------------------------------------------------------------------------
(* Properties *)

DbEndpoints ==
    {"POST /api/profile", "POST /api/metrics", "POST /api/predict",
     "POST /api/reports", "GET /api/profile", "GET /api/metrics",
     "GET /api/reports"}

PostEndpoints ==
    {"POST /api/profile", "POST /api/metrics", "POST /api/predict",
     "POST /api/reports"}

\* the fields a body must carry, per endpoint (section 3 of the spec)
Required(ep) ==
    CASE ep = "POST /api/profile" -> {"owner_name", "business_name"}
      [] ep = "POST /api/metrics" -> MetricFields
      [] ep = "POST /api/predict" -> MetricFields
      [] ep = "POST /api/reports" -> {"title"}

\* the request is one the validation layer lets through
ValidRequest ==
    request.ep \in PostEndpoints =>
        /\ Required(request.ep) \subseteq DOMAIN request.body
        /\ "period" \in DOMAIN request.body =>
              request.body.period # "not-a-date"

\* C1: while the gateway is unavailable, every write or list endpoint called
\* with a valid request answers 500 "Database not configured", and no
\* collection ever holds a record.
C1_UnavailableAnswers500 ==
    db = None =>
        /\ \A c \in DOMAIN store : store[c] = <<>>
        /\ inserts = 0
        /\ (request.ep \in DbEndpoints /\ ValidRequest) =>
              /\ response.status = 500
              /\ response.detail = "Database not configured"

C1_Witness ==
    /\ db = None
    /\ request.ep = "POST /api/profile"
    /\ ValidRequest
    /\ response.status = 500

\* C2: no record with a negative sales, orders or marketing_spend exists in
\* the 'metric' or 'prediction' collection (such a request is rejected with
\* 422 before it reaches storage).
C2_NoNegativeStored ==
    /\ \A c \in {"metric", "prediction"} :
          \A k \in 1..Len(store[c]) : Metric_ge0(store[c][k])
    /\ (/\ request.ep \in {"POST /api/metrics", "POST /api/predict"}
        /\ MetricFields \subseteq DOMAIN request.body
        /\ ~Metric_ge0(request.body)) => response.status = 422

\* C3: for all prediction inputs, negative ones included, predicted_sales
\* and predicted_orders are >= 0 in the response of POST /api/predict and in
\* every stored 'prediction' record.
C3_PredictionsNonNegative ==
    /\ \A k \in 1..Len(store.prediction) :
          /\ store.prediction[k].predicted_sales >= 0
          /\ store.prediction[k].predicted_orders >= 0
    /\ (request.ep = "POST /api/predict" /\ response.status = 200) =>
          /\ response.predicted_sales >= 0
          /\ response.predicted_orders >= 0

C3_Witness ==
    /\ request.ep = "POST /api/predict"
    /\ response.status = 200
    /\ request.body.sales < 0
    /\ store.prediction[Len(store.prediction)].sales = request.body.sales
    /\ response.predicted_sales = 0

\* C4: baseline_predict returns predicted_orders = max(0, floor(orders * 1.03
\* + marketing_spend * 0.02)) and predicted_sales = max(0, sales * 1.05 +
\* marketing_spend * 0.5) for every argument of the range, negative ones
\* included: truncation and floor agree once the result is clamped.
\* (1000, 50, 100) gives 1100.0 and 53; (0, 0, 0) gives 0.0 and 0.
C4_MatchesFloorReference ==
    result # <<>> =>
        /\ result[1].predicted_orders =
              Max(0, Floor(args[2] * 103 + args[3] * 2, 100))
        /\ result[1].predicted_sales = Max(0, args[1] * 105 + args[3] * 50)
        /\ args = <<1000, 50, 100>> =>
              /\ result[1].predicted_sales = 110000
              /\ result[1].predicted_orders = 53
        /\ args = <<0, 0, 0>> =>
              /\ result[1].predicted_sales = 0
              /\ result[1].predicted_orders = 0

\* a call where int() and floor() differ on the raw value
C4_Witness ==
    /\ result # <<>>
    /\ IntTrunc(args[2] * 103 + args[3] * 2, 100)
          # Floor(args[2] * 103 + args[3] * 2, 100)

\* the ISO date string a period given in a request is listed as
NormalizedPeriod(s) == IF s = "2024-02-01T00:00:00" THEN "2024-02-01" ELSE s

\* the record a metrics listing shows for a posted body
ListedMetric(body, id) ==
    ("_id" :> id) @@
    [period |-> NormalizedPeriod(body.period), sales |-> body.sales,
     orders |-> body.orders, marketing_spend |-> body.marketing_spend]

MetricPostSucceeds ==
    (/\ request.ep = "POST /api/metrics"
     /\ db # None
     /\ ValidRequest
     /\ Metric_ge0(request.body)) =>
        /\ response.status = 200
        /\ Len(response.id) > 0

\* a GET /api/metrics without limit that follows a successful POST
\* /api/metrics of non-negative numbers lists the posted record
ListingShowsPosted(when) ==
    (/\ request.ep = "POST /api/metrics"
     /\ response.status = 200
     /\ Metric_ge0(request.body)
     /\ request'.ep = "GET /api/metrics"
     /\ request'.limit = <<>>
     /\ when) =>
        /\ response'.status = 200
        /\ \E k \in 1..Len(response'.items) :
              response'.items[k] = ListedMetric(request.body, response.id)

\* C5 as claimed: for all valid Metric inputs with numbers >= 0 and storage
\* available, POST /api/metrics succeeds with a non-empty id string and a
\* subsequent GET /api/metrics (limit omitted) includes a record whose fields
\* equal the input, whatever number of metric records was stored before.
C5_ListedWhateverStored ==
    []MetricPostSucceeds /\ [][ListingShowsPosted(TRUE)]_vars

\* C5 as amended: the same, provided fewer than 50 metric records were stored
\* before the POST, so that the new record is among the first 50.
C5_ListedWithinDefaultLimit ==
    /\ []MetricPostSucceeds
    /\ [][ListingShowsPosted(Len(store.metric) <= DefaultLimit)]_vars

\* the 50th metric record is the one this process posted, and it is listed
C5_Witness ==
    /\ request.ep = "GET /api/metrics"
    /\ request.limit = <<>>
    /\ inserts >= 1
    /\ Len(store.metric) = DefaultLimit
    /\ store.metric[DefaultLimit]["_id"] = nextId - 1
    /\ response.items[DefaultLimit]["_id"] = StrId(nextId - 1)

LimitedListings == {"GET /api/metrics", "GET /api/reports"}

LimitedListingsCapped ==
    (request.ep \in LimitedListings /\ response.status = 200) =>
        /\ request.limit = <<>> => Len(response.items) <= 50
        /\ request.limit = <<0>> => response.items = <<>>

\* C6 as claimed: with storage available, every GET list endpoint called with
\* limit omitted returns at most 50 records (GET /api/profile included), and
\* GET /api/metrics and GET /api/reports with limit=0 return an empty list.
C6_EveryListingCapped ==
    /\ LimitedListingsCapped
    /\ (request.ep = "GET /api/profile" /\ response.status = 200) =>
          Len(response.items) <= 50

\* C6 as amended: GET /api/metrics and GET /api/reports return at most 50
\* records with limit omitted and an empty list with limit=0; GET
\* /api/profile takes no limit and returns every stored profile.
C6_LimitedListingsCapped ==
    /\ LimitedListingsCapped
    /\ (request.ep = "GET /api/profile" /\ response.status = 200) =>
          Len(response.items) = Len(store.profile)

C6_Witness ==
    /\ request.ep = "GET /api/metrics"
    /\ request.limit = <<>>
    /\ Len(store.metric) > DefaultLimit
    /\ Len(response.items) = DefaultLimit

StatusTexts ==
    {"Not Available", "Available but not initialized", "Available",
     "Connected & Working"}

ErrorTexts == {"Connected but Error: ", "Error: "}

\* C7: GET /test never fails, whatever the storage state: it answers 200 with
\* the diagnostic record, whose database field is one of the status texts or
\* an error description with at most 50 characters of error text, and whose
\* collections list holds at most 10 names.
C7_TestNeverFails ==
    request.ep = "GET /test" =>
        /\ response.status = 200
        /\ \/ /\ response.body.database.text \in StatusTexts
              /\ response.body.database.error = <<>>
           \/ /\ response.body.database.text \in ErrorTexts
              /\ Len(response.body.database.error) <= 50
        /\ Len(response.body.collections) <= 10

\* the driver raised, and the error text fills the cap
C7_Witness ==
    /\ request.ep = "GET /test"
    /\ db # None
    /\ response.body.database.text = "Connected but Error: "
    /\ Len(response.body.database.error) = 50

\* C8: a POST whose body lacks a required field is answered 422, never 500,
\* also when storage is unavailable; neither the availability check nor an
\* insert is performed for it.
C8_ValidationFirst ==
    (/\ request.ep \in PostEndpoints
     /\ ~(Required(request.ep) \subseteq DOMAIN request.body)) =>
        /\ response.status = 422
        /\ \A k \in 1..Len(steps) : steps[k] \notin {"check_db", "insert"}

C8_Witness ==
    /\ db = None
    /\ request.ep = "POST /api/profile"
    /\ "owner_name" \notin DOMAIN request.body
    /\ response.status = 422

Listings == {"GET /api/profile", "GET /api/metrics", "GET /api/reports"}

\* C9: every record that was in a collection is still in it, at the same
\* place, with the same id and field values, after any endpoint call; the GET
\* list endpoints and GET /test leave every collection unchanged.
C9_RecordsImmutable ==
    [][/\ \A c \in DOMAIN store :
            /\ Len(store'[c]) >= Len(store[c])
            /\ \A k \in 1..Len(store[c]) : store'[c][k] = store[c][k]
       /\ request'.ep \in Listings \cup {"GET /test", "GET /"} =>
            store' = store]_vars

\* a listing answered with stringified ids and periods, the stored record
\* still holding the native ones
C9_Witness ==
    /\ request.ep = "GET /api/metrics"
    /\ response.status = 200
    /\ Len(response.items) > 0
    /\ response.items[1].period = "2024-01-01"
    /\ store.metric[1].period = Date(2024, 1, 1)
    /\ response.items[1]["_id"] = StrId(store.metric[1]["_id"])

PostCollection(ep) ==
    CASE ep = "POST /api/profile" -> "profile"
      [] ep = "POST /api/metrics" -> "metric"
      [] ep = "POST /api/predict" -> "prediction"
      [] ep = "POST /api/reports" -> "report"

\* C10: with storage available, every successful POST adds exactly one new
\* record, with a fresh id, to its own collection and leaves the three other
\* collections unchanged, also when the same body was posted before; for
\* /api/predict the stored record holds the inputs and the predicted_sales
\* and predicted_orders the response returns.
C10_PostAddsOneRecord ==
    [][(request'.ep \in PostEndpoints /\ response'.status = 200) =>
         LET c == PostCollection(request'.ep)
             rec == store'[c][Len(store'[c])]
         IN  /\ Len(store'[c]) = Len(store[c]) + 1
             /\ SubSeq(store'[c], 1, Len(store[c])) = store[c]
             /\ \A d \in DOMAIN store \ {c} : store'[d] = store[d]
             /\ \A d \in DOMAIN store : \A k \in 1..Len(store[d]) :
                    store[d][k]["_id"] # rec["_id"]
             /\ response'.id = StrId(rec["_id"])
             /\ request'.ep = "POST /api/predict" =>
                    /\ rec.sales = request'.body.sales
                    /\ rec.orders = request'.body.orders
                    /\ rec.marketing_spend = request'.body.marketing_spend
                    /\ rec.predicted_sales = response'.predicted_sales
                    /\ rec.predicted_orders = response'.predicted_orders]_vars

\* the same prediction body posted twice: two records, two ids
C10_Witness ==
    /\ request.ep = "POST /api/predict"
    /\ response.status = 200
    /\ Len(store.prediction) = 2
    /\ Without(store.prediction[1], "_id") = Without(store.prediction[2], "_id")
    /\ store.prediction[1]["_id"] # store.prediction[2]["_id"]

====
